---- MODULE Spec2Model ----
(***************************************************************************)
(* emla: concurrent batch extraction of metadata from .eml files.          *)
(*                                                                         *)
(* The model follows the concurrent variant of main.go (src/main.go,       *)
(* second package, lines 287-765): main, processFilesConcurrently and the  *)
(* side-effect helpers renameFile, renameFileTo, writeHtmlFile, together   *)
(* with the pure functions formatTime and sanitizeFilename.                *)
(*                                                                         *)
(* Strings are sequences of one-character strings, so that replacing,      *)
(* splitting and concatenating are computed as the Go code computes them.  *)
(* A file-system path is a record [dir, name]: dir is the sequence of      *)
(* directory components, name the file name as a character sequence.       *)
(***************************************************************************)
EXTENDS Integers, Sequences, FiniteSets, Bags, TLC

\* ------------------------------------------------------------------ bounds
\* Largest number of candidate paths in a batch.
MaxPaths == 2
\* Largest worker count of a batch (the -workers flag).
MaxWorkers == 2
\* Largest number of side effects the environment lets fail in one batch.
MaxFaults == 1
\* Longest subject drawn for the file-name derivation (specification NameSpec).
MaxSubjectLen == 2
\* Largest number of tokens of an HTML body (specification FieldSpec).
MaxTokens == 3
\* Longest From or X-Originating-IP header value (specification FieldSpec).
MaxHeaderLen == 3

\* ----------------------------------------------------------------- strings
\* strings.ReplaceAll(s, old, new) for a one-character old; new is a string.
RECURSIVE ReplaceAll(_, _, _)
ReplaceAll(s, old, new) ==
    IF s = <<>> THEN <<>>
    ELSE (IF Head(s) = old THEN new ELSE <<Head(s)>>) \o ReplaceAll(Tail(s), old, new)

\* strings.Split(s, sep) for a one-character sep: the parts between separators;
\* a string without separator gives one part (also the empty string).
RECURSIVE Split(_, _)
Split(s, sep) ==
    IF \A k \in 1..Len(s) : s[k] # sep THEN <<s>>
    ELSE LET k == CHOOSE j \in 1..Len(s) :
                      s[j] = sep /\ \A m \in 1..(j - 1) : s[m] # sep
         IN  <<SubSeq(s, 1, k - 1)>> \o Split(SubSeq(s, k + 1, Len(s)), sep)

\* The literal "unknown" of formatTime.
Unknown == <<"u", "n", "k", "n", "o", "w", "n">>

\* The literal ".eml" of the Sprintf format "%s %s.eml".
DotEml == <<".", "e", "m", "l">>

\* A formatTime that joins the parts without removing the colons of the time.
formatTime_KeepColons(sentDate) ==
    IF sentDate = <<>> THEN Unknown
    ELSE LET parts == Split(sentDate, " ")
         IN  IF Len(parts) >= 2 THEN parts[1] \o <<"_">> \o parts[2] ELSE sentDate

\* formatTime: "2006-01-02 15:04:05" -> "2006-01-02_150405"; "" -> "unknown".
formatTime(sentDate) ==
    IF sentDate = <<>> THEN Unknown
    ELSE LET parts == Split(sentDate, " ")
         IN  IF Len(parts) >= 2
             THEN parts[1] \o <<"_">> \o ReplaceAll(parts[2], ":", <<>>)
             ELSE sentDate

\* An invalidChars list without the vertical bar.
invalidChars_NoBar == <<"/", "\\", ":", "*", "?", "\"", "<", ">">>

\* The invalidChars list of sanitizeFilename, in the order of the source.
invalidChars == <<"/", "\\", ":", "*", "?", "\"", "<", ">", "|">>

\* The loop of sanitizeFilename over invalidChars[k..]: name is reassigned
\* to the result of one ReplaceAll per iteration.  The result of an iteration
\* is bound to v before the next one reads it, as the loop variable is.
RECURSIVE sanitizeFrom(_, _)
sanitizeFrom(name, k) ==
    IF k > Len(invalidChars) THEN name
    ELSE CHOOSE r \in {sanitizeFrom(v, k + 1) :
                          v \in {ReplaceAll(name, invalidChars[k], <<"_">>)}} : TRUE

sanitizeFilename(name) == sanitizeFrom(name, 1)

\* newName of renameFile and renameFileTo:
\* sanitizeFilename(fmt.Sprintf("%s %s.eml", formatTime(SentDate), Subject)).
newName(sentDate, subject) ==
    sanitizeFilename(formatTime(sentDate) \o <<" ">> \o subject \o DotEml)


\* -------------------------------------------------------------- file system
\* strings.TrimSuffix(name, filepath.Ext(name)): the name up to its last dot.
TrimExt(name) ==
    IF \A k \in 1..Len(name) : name[k] # "." THEN name
    ELSE LET k == CHOOSE j \in 1..Len(name) :
                      name[j] = "." /\ \A m \in (j + 1)..Len(name) : name[m] # "."
         IN  SubSeq(name, 1, k - 1)

\* filepath.Rel(inputRoot, filePath) for a candidate, which lies under inputRoot:
\* the directory part of the relative path (filepath.Dir(relPath)).
RelDir(root, path) == SubSeq(path.dir, Len(root) + 1, Len(path.dir))

\* outPath of writeHtmlFile: the mirrored position with the extension replaced.
HtmlPath(path, root, outDir) ==
    [dir |-> outDir \o RelDir(root, path),
     name |-> TrimExt(path.name) \o <<".", "h", "t", "m", "l">>]

\* The file system f with the file at path p holding content c.
WriteFile(f, p, c) == [q \in (DOMAIN f) \cup {p} |-> IF q = p THEN c ELSE f[q]]

\* The file system f without the file at path p.
RemoveFile(f, p) == [q \in (DOMAIN f) \ {p} |-> f[q]]

\* os.Rename(src, dst) on f: dst takes the file of src (replacing what was there).
OsRename(f, src, dst) ==
    IF src = dst THEN f ELSE RemoveFile(WriteFile(f, dst, f[src]), src)

\* What a file holds after os.Create cut it to length zero, or after a copy into it
\* stopped early.
Truncated == [kind |-> "truncated"]

\* os.Open(src); os.Create(dst); io.Copy(dst, src) on f. Creating dst cuts it to
\* length zero before the first byte of src is read, so copying a file onto itself
\* leaves it empty.
OsCopy(f, src, dst) ==
    IF src = dst THEN WriteFile(f, dst, Truncated) ELSE WriteFile(f, dst, f[src])

\* ------------------------------------------------------------------ inputs
\* The input root given on the command line.
inputRoot == <<"in">>

\* The i-th candidate path, in the order of the directory walk: in/a.eml,
\* in/unknown s.eml, in/z/unknown s.eml, then in/z/xxxx.eml, in/z/xxxxx.eml, ...
Candidate(i) ==
    CASE i = 1 -> [dir |-> <<"in">>, name |-> <<"a">> \o DotEml]
      [] i = 2 -> [dir |-> <<"in">>, name |-> Unknown \o <<" ", "s">> \o DotEml]
      [] i = 3 -> [dir |-> <<"in", "z">>, name |-> Unknown \o <<" ", "s">> \o DotEml]
      [] OTHER -> [dir |-> <<"in", "z">>, name |-> [k \in 1..i |-> "x"] \o DotEml]

\* A message without Date header, subject "s".
MsgU == [kind |-> "msg", SentDate |-> <<>>, Subject |-> <<"s">>, Html |-> "hU"]

\* A message sent 2024-03-26 15:30:15, subject "Re: Q1".
MsgD == [kind |-> "msg",
         SentDate |-> <<"2", "0", "2", "4", "-", "0", "3", "-", "2", "6", " ",
                        "1", "5", ":", "3", "0", ":", "1", "5">>,
         Subject |-> <<"R", "e", ":", " ", "Q", "1">>, Html |-> "hD"]

\* The headers of a truncated file that still parses: none.
NoHeaders == [kind |-> "msg", SentDate |-> <<>>, Subject |-> <<>>, Html |-> ""]

\* newName for the records a batch can produce, tabulated by <<SentDate, Subject>>.
BatchNames ==
    [k \in {<<m.SentDate, m.Subject>> : m \in {MsgU, MsgD, NoHeaders}} |->
        newName(k[1], k[2])]

\* newPath of renameFile: the derived name in the directory of the file.
RenamePath(path, rec) ==
    [dir |-> path.dir, name |-> BatchNames[<<rec.SentDate, rec.Subject>>]]

\* newPath of renameFileTo: the derived name at the mirrored position under outputDir.
CopyPath(path, root, outputDir, rec) ==
    [dir |-> outputDir \o RelDir(root, path),
     name |-> BatchNames[<<rec.SentDate, rec.Subject>>]]

\* A file processEmlFile fails on.
Bad == [kind |-> "bad"]

\* What a candidate file may hold when the batch starts.
InitContents == {MsgU, Bad}

\* The values of -eml2html-to and -rename-by-header-to; <<>> is the unset flag.
HtmlDirs == {<<>>, <<"out">>}
CopyDirs == {<<>>, <<"in">>, <<"in", "z">>, <<"out">>}

\* ------------------------------------------------------------------- values
NoPath == [dir |-> <<>>, name |-> <<>>]
Nil == [kind |-> "nil", path |-> NoPath]

\* EmailRecord{}: the zero record.
ZeroRecord == [Folder |-> "", Subject |-> <<>>, SentDate |-> <<>>, OriginalFile |-> <<>>]

\* Where processEmlFile may fail on the file at path in file system f: in os.Open, in
\* mail.CreateReader or in NextPart for a file it fails on, and in os.Open for a file
\* that is gone; "" is success. Whether the bytes of a truncated file still parse as a
\* message depends on where the copy stopped, so both outcomes are possible.
Failures(f, path) ==
    IF path \notin DOMAIN f THEN {"open"}
    ELSE CASE f[path].kind = "bad" -> {"open", "parse", "part"}
           [] f[path].kind = "truncated" -> {"", "parse"}
           [] OTHER -> {""}

\* The error processEmlFile returns for a failure in os.Open, mail.CreateReader or
\* NextPart. The error of os.Open is a *PathError, whose text holds the path; the
\* others do not hold it.
DecodeError(kind, path) ==
    [kind |-> kind, path |-> IF kind = "open" THEN path ELSE NoPath]

\* processEmlFile(filePath) on file system f, failing at failure (or not, when ""):
\* <<record, htmlContent, err>>. A truncated file that still parses has no headers.
processEmlFile(f, path, failure) ==
    LET m == IF f[path].kind = "truncated" THEN NoHeaders ELSE f[path]
    IN  IF failure # "" THEN <<ZeroRecord, "", DecodeError(failure, path)>>
        ELSE <<[Folder |-> path.dir[Len(path.dir)], Subject |-> m.Subject,
                SentDate |-> m.SentDate, OriginalFile |-> path.name], m.Html, Nil>>

\* A branch that prefers the in-place rename to copy-to.
RenameMode_InPlaceFirst(to, inPlace) ==
    IF inPlace THEN "rename" ELSE IF to # <<>> THEN "copy" ELSE "send"

\* The branch of the worker after the HTML dump: copy-to, in-place rename or neither.
RenameMode(to, inPlace) ==
    IF to # <<>> THEN "copy" ELSE IF inPlace THEN "rename" ELSE "send"

\* A worker that renames or copies first and dumps the HTML only when there is
\* nothing to rename or copy.
AfterDecode_RenameFirst(htmlDir, to, inPlace) ==
    IF to # <<>> THEN "copy"
    ELSE IF inPlace THEN "rename"
    ELSE IF htmlDir # <<>> THEN "html" ELSE "send"

\* The worker's next statement after a successful processEmlFile.
AfterDecode(htmlDir, to, inPlace) ==
    IF htmlDir # <<>> THEN "html" ELSE RenameMode(to, inPlace)


\* -------------------------------------------------------------------- state
VARIABLES
    paths,            \* filePaths: the candidate paths, in input order
    workerCount,      \* the -workers flag
    htmlOutDir,       \* the -eml2html-to flag
    renameByHeader,   \* the -rename-by-header flag
    renameByHeaderTo, \* the -rename-by-header-to flag
    fs0,              \* the file system when the batch starts
    fs,               \* the file system: path -> content
    pc,               \* the statement main is at
    spawned,          \* the loop counter i of the go worker() loop
    sent,             \* the number of paths main has put on tasks
    tasks,            \* the buffer of the tasks channel
    tasksClosed,      \* close(tasks) has run
    results,          \* the buffer of the results channel
    resultsClosed,    \* close(results) has run
    wg,               \* the counter of the sync.WaitGroup
    pool,             \* the worker goroutines: a bag of [pc, path, out]
    records,          \* the records slice of the collector
    log,              \* the warnings written with log.Printf, as a bag of [tag, path]
    stdout,           \* what main printed to standard output: "", "csv" or "json"
    jsonOutput,       \* the -json flag
    csvOutput,        \* the -csv flag
    failed,           \* the paths whose processEmlFile returned an error
    ops,              \* the side effects attempted, as a set of [op, path]
    sentDate,         \* file-name derivation: the SentDate of the record
    subject,          \* file-name derivation: the Subject of the record
    derived,          \* file-name derivation: <<newName, newName sanitized again,
                      \* newName derived again>>, as far as computed
    npc,              \* file-name derivation: the step
    fromHeader,       \* record fields: the value of the From header
    ipHeader,         \* record fields: the value of the X-Originating-IP header
    htmlContent,      \* record fields: the HTML body, as its tokens
    fromName,         \* record fields: fromName of processEmlFile
    fromEmail,        \* record fields: fromEmail of processEmlFile
    originIP,         \* record fields: originIP of processEmlFile
    urls,             \* record fields: urls of processEmlFile
    urlDomains,       \* record fields: urlDomains of processEmlFile
    record,           \* record fields: the EmailRecord built at the end
    fpc               \* record fields: the statement processEmlFile is at

config == <<paths, workerCount, htmlOutDir, renameByHeader, renameByHeaderTo, fs0>>
chans  == <<tasks, tasksClosed, results, resultsClosed, wg>>
mvars  == <<pc, spawned, sent, records, stdout, jsonOutput, csvOutput>>
nvars  == <<sentDate, subject, derived, npc>>
fvars  == <<fromHeader, ipHeader, htmlContent, fromName, fromEmail, originIP, urls,
            urlDomains, record, fpc>>
vars   == <<config, chans, pool, mvars, nvars, fvars, fs, log, failed, ops>>

\* Channels with room for half of the paths only.
Cap_Half == Len(paths) \div 2

\* The capacity of both channels: make(chan ..., len(paths)).
Cap == Len(paths)

\* The loop variables of a worker that holds no task.
NoOut == <<ZeroRecord, "", Nil>>

\* A worker at the head of its loop, waiting on tasks.
Idle == [pc |-> "recv", path |-> NoPath, out |-> NoOut]

\* The state of the batch when processFilesConcurrently is called with n candidates.
BatchInit(n) ==
    /\ paths = [k \in 1..n |-> Candidate(k)]
    /\ workerCount \in (-1)..MaxWorkers
    /\ htmlOutDir \in HtmlDirs
    /\ renameByHeader \in BOOLEAN
    /\ renameByHeaderTo \in CopyDirs
    /\ \E c \in [1..n -> InitContents] :
           fs0 = [p \in {Candidate(k) : k \in 1..n} |->
                     c[CHOOSE k \in 1..n : Candidate(k) = p]]
    /\ fs = fs0
    /\ pc = "add"
    /\ spawned = 0
    /\ sent = 0
    /\ tasks = <<>>
    /\ tasksClosed = FALSE
    /\ results = <<>>
    /\ resultsClosed = FALSE
    /\ wg = 0
    /\ pool = EmptyBag
    /\ records = <<>>
    /\ log = EmptyBag
    /\ stdout = ""
    /\ jsonOutput = FALSE
    /\ csvOutput = FALSE
    /\ failed = {}
    /\ ops = {}

\* The file-name derivation is idle during a batch.
NameIdle ==
    /\ sentDate = <<>>
    /\ subject = <<>>
    /\ derived = <<>>
    /\ npc = "idle"

\* No record is being built outside processEmlFile.
FieldsIdle ==
    /\ fromHeader = <<>>
    /\ ipHeader = <<>>
    /\ htmlContent = <<>>
    /\ fromName = <<>>
    /\ fromEmail = <<>>
    /\ originIP = <<>>
    /\ urls = <<>>
    /\ urlDomains = <<>>
    /\ record = <<>>
    /\ fpc = "idle"

Init == (\E n \in 0..MaxPaths : BatchInit(n)) /\ NameIdle /\ FieldsIdle

\* ------------------------------------------------------------------- main
\* A wait group that takes a negative count without a panic.
WgAdd_NoPanic ==
    /\ pc = "add"
    /\ wg' = wg + workerCount
    /\ pc' = IF workerCount <= 0 THEN "enqueue" ELSE "spawn"
    /\ UNCHANGED <<config, tasks, tasksClosed, results, resultsClosed, pool, spawned,
                   sent, records, stdout, jsonOutput, csvOutput, nvars, fvars, fs, log,
                   failed, ops>>

\* wg.Add(workerCount): a negative counter panics.
WgAdd ==
    /\ pc = "add"
    /\ wg' = IF workerCount < 0 THEN wg ELSE wg + workerCount
    /\ pc' = IF workerCount < 0 THEN "panic"
             ELSE IF workerCount = 0 THEN "enqueue" ELSE "spawn"
    /\ UNCHANGED <<config, tasks, tasksClosed, results, resultsClosed, pool, spawned,
                   sent, records, stdout, jsonOutput, csvOutput, nvars, fvars, fs, log,
                   failed, ops>>

\* go worker(), once per iteration of the loop over i < workerCount.
Spawn ==
    /\ pc = "spawn"
    /\ spawned < workerCount
    /\ pool' = pool (+) SetToBag({Idle})
    /\ spawned' = spawned + 1
    /\ pc' = IF spawned + 1 < workerCount THEN "spawn" ELSE "enqueue"
    /\ UNCHANGED <<config, chans, sent, records, stdout, jsonOutput,
                   csvOutput, nvars, fvars, fs, log, failed, ops>>

\* tasks <- task{path: path}, once per path; the send waits while the buffer is full.
Enqueue ==
    /\ pc = "enqueue"
    /\ sent < Len(paths)
    /\ Len(tasks) < Cap
    /\ tasks' = Append(tasks, paths[sent + 1])
    /\ sent' = sent + 1
    /\ UNCHANGED <<config, tasksClosed, results, resultsClosed, wg, pool, pc, spawned,
                   records, stdout, jsonOutput, csvOutput, nvars, fvars, fs, log, failed, ops>>

\* close(tasks), after the loop over paths.
CloseTasks ==
    /\ pc = "enqueue"
    /\ sent = Len(paths)
    /\ tasksClosed' = TRUE
    /\ pc' = "wait"
    /\ UNCHANGED <<config, tasks, results, resultsClosed, wg, pool, spawned, sent,
                   records, stdout, jsonOutput, csvOutput, nvars, fvars, fs, log, failed, ops>>

\* A main that goes on to close(results) without waiting for the workers.
Wait_Skipped ==
    /\ pc = "wait"
    /\ pc' = "closeResults"
    /\ UNCHANGED <<config, chans, pool, spawned, sent, records, stdout, jsonOutput,
                   csvOutput, nvars, fvars, fs, log, failed, ops>>

\* wg.Wait() returns when the counter is zero.
Wait ==
    /\ pc = "wait"
    /\ wg = 0
    /\ pc' = "closeResults"
    /\ UNCHANGED <<config, chans, pool, spawned, sent, records, stdout, jsonOutput,
                   csvOutput, nvars, fvars, fs, log, failed, ops>>

\* close(results).
CloseResults ==
    /\ pc = "closeResults"
    /\ resultsClosed' = TRUE
    /\ pc' = "collect"
    /\ UNCHANGED <<config, tasks, tasksClosed, results, wg, pool, spawned, sent,
                   records, stdout, jsonOutput, csvOutput, nvars, fvars, fs, log, failed, ops>>

\* What the collector does with one result: a warning for an error (the text is the
\* error alone, so the only path in it is the one the error carries), else an append.
\* A collector that logs nothing for an error result.
CollectLog_Silent(lg, res) == lg

CollectLog(lg, res) ==
    IF res[3] # Nil THEN lg (+) SetToBag({[tag |-> "fail", path |-> res[3].path]}) ELSE lg

\* A collector that puts each record in front of the list.
CollectRecords_Prepend(recs, res) ==
    IF res[3] # Nil THEN recs ELSE <<res[1]>> \o recs

\* A collector that appends the record field of every result, error or not.
CollectRecords_NoSkip(recs, res) == Append(recs, res[1])

CollectRecords(recs, res) ==
    IF res[3] # Nil THEN recs ELSE Append(recs, res[1])

\* One iteration of for res := range results.
Collect ==
    /\ pc = "collect"
    /\ results # <<>>
    /\ results' = Tail(results)
    /\ log' = CollectLog(log, Head(results))
    /\ records' = CollectRecords(records, Head(results))
    /\ UNCHANGED <<config, tasks, tasksClosed, resultsClosed, wg, pool, pc, spawned,
                   sent, stdout, jsonOutput, csvOutput, nvars, fvars, fs, failed, ops>>

\* The range loop ends when results is closed and drained; the function returns.
Return ==
    /\ pc = "collect"
    /\ results = <<>>
    /\ resultsClosed
    /\ pc' = "print"
    /\ UNCHANGED <<config, chans, pool, spawned, sent, records, stdout, jsonOutput,
                   csvOutput, nvars, fvars, fs, log, failed, ops>>

\* A test of the side-effect modes that leaves out the in-place rename flag.
SideEffectMode_NoInPlace(htmlDir, inPlace, to) == htmlDir # <<>> \/ to # <<>>

\* main after the batch: whether the summary goes to standard output.
SideEffectMode(htmlDir, inPlace, to) == htmlDir # <<>> \/ inPlace \/ to # <<>>

\* printOutput(records, jsonOutput, csvOutput).
printOutput(json, csv) == IF json THEN "json" ELSE IF csv THEN "csv" ELSE ""

\* The end of main. The -json and -csv flags are read here only, so they are drawn
\* here; csv is the default when neither is given.
Output ==
    /\ pc = "print"
    /\ \E j \in BOOLEAN, c \in BOOLEAN :
           /\ jsonOutput' = j
           /\ csvOutput' = (c \/ (~j /\ ~c))
           /\ stdout' = IF SideEffectMode(htmlOutDir, renameByHeader, renameByHeaderTo)
                        THEN ""
                        ELSE printOutput(j, c \/ (~j /\ ~c))
    /\ pc' = "done"
    /\ UNCHANGED <<config, chans, pool, spawned, sent, records, nvars, fvars, fs, log,
                   failed, ops>>


\* ----------------------------------------------------------------- workers
\* A worker w is an element of pool: w.pc is the statement it is at, w.path is t.path,
\* w.out is <<rec, htmlContent, err>>. Step(w, v) is the pool after w became v.
Step(w, v) == (pool (-) SetToBag({w})) (+) SetToBag({v})

\* A pool that starts a new goroutine for every task it takes.
Recv_Fork(w) ==
    /\ w.pc = "recv"
    /\ tasks # <<>>
    /\ tasks' = Tail(tasks)
    /\ pool' = pool (+) SetToBag({[pc |-> "process", path |-> Head(tasks), out |-> NoOut]})
    /\ UNCHANGED <<config, tasksClosed, results, resultsClosed, wg, mvars, nvars, fvars,
                   fs, log, failed, ops>>

\* A worker that reads the next task and leaves it on the queue.
Recv_Peek(w) ==
    /\ w.pc = "recv"
    /\ tasks # <<>>
    /\ tasks' = tasks
    /\ pool' = Step(w, [pc |-> "process", path |-> Head(tasks), out |-> NoOut])
    /\ UNCHANGED <<config, tasksClosed, results, resultsClosed, wg, mvars, nvars, fvars, fs,
                   log, failed, ops>>

\* for t := range tasks: take the next task.
Recv(w) ==
    /\ w.pc = "recv"
    /\ tasks # <<>>
    /\ tasks' = Tail(tasks)
    /\ pool' = Step(w, [pc |-> "process", path |-> Head(tasks), out |-> NoOut])
    /\ UNCHANGED <<config, tasksClosed, results, resultsClosed, wg, mvars, nvars, fvars, fs,
                   log, failed, ops>>

\* The range loop of the worker ends when tasks is closed and drained: wg.Done().
Exit(w) ==
    /\ w.pc = "recv"
    /\ tasks = <<>>
    /\ tasksClosed
    /\ wg' = wg - 1
    /\ pool' = Step(w, [w EXCEPT !.pc = "exited"])
    /\ UNCHANGED <<config, tasks, tasksClosed, results, resultsClosed, mvars, nvars, fvars,
                   fs, log, failed, ops>>

\* rec, htmlContent, err := processEmlFile(t.path), and the branch on err.
Process(w) ==
    /\ w.pc = "process"
    /\ \E failure \in Failures(fs, w.path) :
         LET out == processEmlFile(fs, w.path, failure)
         IN  /\ failed' = IF out[3] # Nil THEN failed \cup {w.path} ELSE failed
             /\ pool' = Step(w, [w EXCEPT
                    !.out = out,
                    !.pc = IF out[3] # Nil THEN "send"
                           ELSE AfterDecode(htmlOutDir, renameByHeaderTo, renameByHeader)])
    /\ UNCHANGED <<config, chans, mvars, nvars, fvars, fs, log, ops>>

\* The warning a worker logs for a failed side effect: it names t.path.
Warn(lg, tag, path) == lg (+) SetToBag({[tag |-> tag, path |-> path]})

\* The number of side-effect warnings logged so far.
SideWarnings(lg) ==
    BagCardinality([e \in {x \in BagToSet(lg) : x.tag # "fail"} |-> lg[e]])

\* Whether the environment may make one more side effect fail.
MayFail == SideWarnings(log) < MaxFaults

\* A worker that gives up the file when a side effect failed.
AfterSideEffect_Drop(ok, next) == IF ok THEN next ELSE "recv"

\* The worker's statement after a side effect that failed or not: the record is kept.
AfterSideEffect(ok, next) == next

\* writeHtmlFile(t.path, inputRoot, htmlOutDir, htmlContent); MkdirAll or WriteFile
\* may fail, which is logged.
WriteHtml(w) ==
    /\ w.pc = "html"
    /\ \E ok \in BOOLEAN :
           /\ ok \/ MayFail
           /\ fs' = IF ok THEN WriteFile(fs, HtmlPath(w.path, inputRoot, htmlOutDir),
                                         [kind |-> "html", body |-> w.out[2]])
                    ELSE fs
           /\ log' = IF ok THEN log ELSE Warn(log, "html", w.path)
           /\ pool' = Step(w, [w EXCEPT !.pc =
                         AfterSideEffect(ok, RenameMode(renameByHeaderTo, renameByHeader))])
    /\ ops' = ops \cup {[op |-> "html", path |-> w.path]}
    /\ UNCHANGED <<config, chans, mvars, nvars, fvars, failed>>

\* renameFileTo(t.path, inputRoot, renameByHeaderTo, rec). It fails before os.Create
\* (MkdirAll, os.Open, os.Create itself), or in io.Copy after the target was cut to
\* length zero, or not at all.
RenameTo(w) ==
    /\ w.pc = "copy"
    /\ LET dst == CopyPath(w.path, inputRoot, renameByHeaderTo, w.out[1])
       IN  \E outcome \in {"ok", "early", "late"} :
               /\ outcome = "ok" \/ MayFail \/ w.path \notin DOMAIN fs
               /\ outcome \in {"ok", "late"} => w.path \in DOMAIN fs
               /\ fs' = CASE outcome = "ok" -> OsCopy(fs, w.path, dst)
                          [] outcome = "late" -> WriteFile(fs, dst, Truncated)
                          [] OTHER -> fs
               /\ log' = IF outcome = "ok" THEN log ELSE Warn(log, "copy", w.path)
               /\ pool' = Step(w, [w EXCEPT !.pc = AfterSideEffect(outcome = "ok", "send")])
    /\ ops' = ops \cup {[op |-> "copy", path |-> w.path]}
    /\ UNCHANGED <<config, chans, mvars, nvars, fvars, failed>>

\* renameFile(t.path, rec): os.Rename fails when the file is gone, and may fail
\* otherwise.
Rename(w) ==
    /\ w.pc = "rename"
    /\ \E ok \in BOOLEAN :
           /\ ok \/ MayFail \/ w.path \notin DOMAIN fs
           /\ ok => w.path \in DOMAIN fs
           /\ fs' = IF ok THEN OsRename(fs, w.path, RenamePath(w.path, w.out[1]))
                    ELSE fs
           /\ log' = IF ok THEN log ELSE Warn(log, "rename", w.path)
           /\ pool' = Step(w, [w EXCEPT !.pc = AfterSideEffect(ok, "send")])
    /\ ops' = ops \cup {[op |-> "rename", path |-> w.path]}
    /\ UNCHANGED <<config, chans, mvars, nvars, fvars, failed>>

\* What a worker puts on results: result{err: err} or result{record: rec}.
Result(out) == IF out[3] # Nil THEN <<ZeroRecord, "", out[3]>> ELSE <<out[1], "", Nil>>

\* results <- result{...}; the send waits while the buffer is full, and a send on a
\* closed channel panics. After the send the loop variables t, rec, err are dead.
Send(w) ==
    /\ w.pc = "send"
    /\ resultsClosed \/ Len(results) < Cap
    /\ results' = IF resultsClosed THEN results ELSE Append(results, Result(w.out))
    /\ pool' = Step(w, IF resultsClosed THEN [w EXCEPT !.pc = "panic"] ELSE Idle)
    /\ UNCHANGED <<config, tasks, tasksClosed, resultsClosed, wg, mvars, nvars, fvars, fs,
                   log, failed, ops>>

\* ------------------------------------------------------ file-name derivation
\* The characters subjects are drawn from: the nine invalid ones and four others.
Alphabet == {"/", "\\", ":", "*", "?", "\"", "<", ">", "|", "_", "a", " ", "."}

\* Two digits of a time.Format field.
Digit(n) == CASE n = 0 -> "0" [] n = 1 -> "1" [] n = 2 -> "2" [] n = 3 -> "3"
              [] n = 4 -> "4" [] n = 5 -> "5" [] n = 6 -> "6" [] n = 7 -> "7"
              [] n = 8 -> "8" [] n = 9 -> "9"
Pad2(n) == <<Digit((n \div 10) % 10), Digit(n % 10)>>

\* date.Format("2006-01-02 15:04:05") of processEmlFile.
FormatDate(y, mo, d, h, mi, s) ==
    Pad2(y \div 100) \o Pad2(y % 100) \o <<"-">> \o Pad2(mo) \o <<"-">> \o Pad2(d)
    \o <<" ">> \o Pad2(h) \o <<":">> \o Pad2(mi) \o <<":">> \o Pad2(s)

\* The SentDate values of a record: empty (no Date header, or one that does not
\* parse), or a formatted date.
SentDates ==
    {<<>>} \cup {FormatDate(y, mo, 26, h, 30, s) :
                    y \in {1999, 2024}, mo \in {3, 12}, h \in {0, 15}, s \in {5, 15}}

RECURSIVE StringsUpTo(_)
StringsUpTo(n) ==
    IF n = 0 THEN {<<>>}
    ELSE LET shorter == StringsUpTo(n - 1)
         IN  shorter \cup {Append(x, c) : x \in shorter, c \in Alphabet}

\* No batch runs while a name is derived.
BatchIdle ==
    /\ paths = <<>>
    /\ workerCount = 0
    /\ htmlOutDir = <<>>
    /\ renameByHeader = FALSE
    /\ renameByHeaderTo = <<>>
    /\ fs0 = <<>>
    /\ fs = <<>>
    /\ pc = "idle"
    /\ spawned = 0
    /\ sent = 0
    /\ tasks = <<>>
    /\ tasksClosed = FALSE
    /\ results = <<>>
    /\ resultsClosed = FALSE
    /\ wg = 0
    /\ pool = EmptyBag
    /\ records = <<>>
    /\ log = EmptyBag
    /\ stdout = ""
    /\ jsonOutput = FALSE
    /\ csvOutput = FALSE
    /\ failed = {}
    /\ ops = {}

\* A record whose name is about to be derived.
NameInit ==
    /\ BatchIdle
    /\ FieldsIdle
    /\ sentDate \in SentDates
    /\ subject \in StringsUpTo(MaxSubjectLen) \cup {MsgU.Subject, MsgD.Subject}
    /\ derived = <<>>
    /\ npc = "derive"

\* newName := sanitizeFilename(fmt.Sprintf("%s %s.eml", newTime, record.Subject)).
Derive ==
    /\ npc = "derive"
    /\ derived' = Append(derived, newName(sentDate, subject))
    /\ npc' = "named"
    /\ UNCHANGED <<config, chans, pool, mvars, sentDate, subject, fvars, fs, log, failed,
                 ops>>

\* sanitizeFilename applied to a name that was sanitized already.
Resanitize ==
    /\ npc = "named"
    /\ derived' = Append(derived, sanitizeFilename(derived[Len(derived)]))
    /\ npc' = "resanitized"
    /\ UNCHANGED <<config, chans, pool, mvars, sentDate, subject, fvars, fs, log, failed,
                 ops>>

\* The name derived a second time from the same record.
Rederive ==
    /\ npc = "resanitized"
    /\ derived' = Append(derived, newName(sentDate, subject))
    /\ npc' = "rederived"
    /\ UNCHANGED <<config, chans, pool, mvars, sentDate, subject, fvars, fs, log, failed,
                 ops>>

Naming == Derive \/ Resanitize \/ Rederive

\* ------------------------------------------------------------ record fields
\* An HTML string is the sequence of its tokens: a start tag with its attributes
\* in source order, an end tag, or a run of text.
StartTag(name, attr) == [t |-> "start", data |-> name, attr |-> attr]
EndTag == [t |-> "end", data |-> "", attr |-> <<>>]
Text(chars) == [t |-> "text", data |-> chars, attr |-> <<>>]
Attr(key, val) == [key |-> key, val |-> val]

\* strings.TrimSpace(content) == "": nothing but white space.
IsBlank(content) ==
    \A k \in 1..Len(content) :
        content[k].t = "text" /\ \A j \in 1..Len(content[k].data) : content[k].data[j] = " "

\* html.Parse: the tree of the tokens from position i on, up to the end tag that
\* closes the enclosing element or the end of input: [kids, next]. A node is
\* [type, data, attr, kids].
RECURSIVE ParseNodes(_, _)
ParseNodes(content, i) ==
    IF i > Len(content) THEN [kids |-> <<>>, next |-> i]
    ELSE LET tok == content[i]
         IN  CASE tok.t = "end" -> [kids |-> <<>>, next |-> i + 1]
               [] tok.t = "text" ->
                    LET rest == ParseNodes(content, i + 1)
                    IN  [kids |-> <<[type |-> "text", data |-> tok.data,
                                     attr |-> <<>>, kids |-> <<>>]>> \o rest.kids,
                         next |-> rest.next]
               [] OTHER ->
                    LET inner == ParseNodes(content, i + 1)
                        rest == ParseNodes(content, inner.next)
                    IN  [kids |-> <<[type |-> "element", data |-> tok.data,
                                     attr |-> tok.attr, kids |-> inner.kids]>> \o rest.kids,
                         next |-> rest.next]

\* The children of the document node; an end tag that closes nothing is dropped.
RECURSIVE ParseTop(_, _)
ParseTop(content, i) ==
    LET r == ParseNodes(content, i)
    IN  IF r.next > Len(content) THEN r.kids ELSE r.kids \o ParseTop(content, r.next)

\* html.Parse(strings.NewReader(content)): the document node.
HtmlParse(content) ==
    [type |-> "document", data |-> "", attr |-> <<>>, kids |-> ParseTop(content, 1)]

\* strings.HasPrefix(s, prefix).
HasPrefix(s, prefix) == Len(s) >= Len(prefix) /\ SubSeq(s, 1, Len(prefix)) = prefix

\* The literal "http" of the crawler.
Http == <<"h", "t", "t", "p">>

\* The loop over n.Attr of the crawler: the values appended to urls, from attr[k] on.
RECURSIVE hrefs(_, _)
hrefs(attr, k) ==
    IF k > Len(attr) THEN <<>>
    ELSE (IF attr[k].key = "href" /\ HasPrefix(attr[k].val, Http)
          THEN <<attr[k].val>> ELSE <<>>) \o hrefs(attr, k + 1)

\* crawler(n): what the visit of n and of its children (FirstChild, NextSibling)
\* appends to urls. crawlKids is the loop over the children from the k-th on.
RECURSIVE crawler(_)
RECURSIVE crawlKids(_, _)
crawler(n) ==
    (IF n.type = "element" /\ n.data = "a" THEN hrefs(n.attr, 1) ELSE <<>>)
    \o crawlKids(n.kids, 1)

crawlKids(kids, k) ==
    IF k > Len(kids) THEN <<>> ELSE crawler(kids[k]) \o crawlKids(kids, k + 1)

\* The loop over urls with the map unique: result after the first k - 1 values
\* were handled.
RECURSIVE uniqueFrom(_, _, _)
uniqueFrom(found, k, result) ==
    IF k > Len(found) THEN result
    ELSE uniqueFrom(found, k + 1,
                    IF \E j \in 1..Len(result) : result[j] = found[k]
                    THEN result ELSE Append(result, found[k]))

\* An extractUrls that returns what the crawler collected as it is.
unique_KeepAll(found) == found

\* The removal of duplicates at the end of extractUrls.
unique(found) == uniqueFrom(found, 1, <<>>)

\* extractUrls(htmlContent). html.Parse returns no error for a string, so the
\* regular expression is not used.
extractUrls(content) ==
    IF IsBlank(content) THEN <<>> ELSE unique(crawler(HtmlParse(content)))

\* The index of the first occurrence of the string sep in s from position k on, or 0.
RECURSIVE Index(_, _, _)
Index(s, sep, k) ==
    IF k + Len(sep) - 1 > Len(s) THEN 0
    ELSE IF SubSeq(s, k, k + Len(sep) - 1) = sep THEN k
    ELSE Index(s, sep, k + 1)

HexDigits == {"0", "1", "2", "3", "4", "5", "6", "7", "8", "9",
              "a", "b", "c", "d", "e", "f", "A", "B", "C", "D", "E", "F"}

\* url.Parse(u) for the URLs of the model: [err, Host]. A space in the host, or a
\* percent sign that two hexadecimal digits do not follow, is an error; the host
\* is what stands between "://" and the next slash; a URL without "://" has none.
UrlParse(u) ==
    LET at == Index(u, <<":", "/", "/">>, 1)
        rest == IF at = 0 THEN <<>> ELSE SubSeq(u, at + 3, Len(u))
        slash == Index(rest, <<"/">>, 1)
        host == IF slash = 0 THEN rest ELSE SubSeq(rest, 1, slash - 1)
        badEscape == \E k \in 1..Len(u) :
                         /\ u[k] = "%"
                         /\ ~(k + 2 <= Len(u) /\ u[k + 1] \in HexDigits /\ u[k + 2] \in HexDigits)
        badHost == \E k \in 1..Len(host) : host[k] = " "
    IN  IF badEscape \/ badHost THEN [err |-> TRUE, Host |-> <<>>]
        ELSE [err |-> FALSE, Host |-> host]

\* The loop over urls of processEmlFile: parsed.Host is appended for each URL
\* that url.Parse accepts; the others are passed over.
RECURSIVE domainsFrom(_, _)
domainsFrom(found, k) ==
    IF k > Len(found) THEN <<>>
    ELSE (IF UrlParse(found[k]).err THEN <<>> ELSE <<UrlParse(found[k]).Host>>)
         \o domainsFrom(found, k + 1)

\* strings.Join(elems, "\n").
RECURSIVE Join(_, _)
Join(elems, sep) ==
    IF elems = <<>> THEN <<>>
    ELSE IF Len(elems) = 1 THEN elems[1]
    ELSE elems[1] \o sep \o Join(Tail(elems), sep)

\* strings.TrimSpace for a string whose white space is the space character.
RECURSIVE TrimSpace(_)
TrimSpace(s) ==
    IF s = <<>> THEN s
    ELSE IF Head(s) = " " THEN TrimSpace(Tail(s))
    ELSE IF s[Len(s)] = " " THEN TrimSpace(SubSeq(s, 1, Len(s) - 1))
    ELSE s

\* An addr-spec of the address headers of the model: letters, one "@", letters.
IsAddrSpec(s) ==
    \E k \in 2..(Len(s) - 1) :
        /\ s[k] = "@"
        /\ \A j \in (1..Len(s)) \ {k} : s[j] = "a"

\* One mailbox of an address list: addr-spec, or an optional display name of
\* letters and spaces followed by the addr-spec in angle brackets.
\* [err, Name, Address].
ParseMailbox(s) ==
    LET lt == Index(s, <<"<">>, 1)
        name == TrimSpace(SubSeq(s, 1, lt - 1))
        inner == SubSeq(s, lt + 1, Len(s) - 1)
    IN  IF IsAddrSpec(s) THEN [err |-> FALSE, Name |-> <<>>, Address |-> s]
        ELSE IF /\ lt > 0
                /\ s[Len(s)] = ">"
                /\ IsAddrSpec(inner)
                /\ \A j \in 1..Len(name) : name[j] \in {"a", " "}
        THEN [err |-> FALSE, Name |-> name, Address |-> inner]
        ELSE [err |-> TRUE, Name |-> <<>>, Address |-> <<>>]

\* h.AddressList(key) of go-message on the header value v: the mailboxes between
\* the commas, or an error when one of them is no mailbox. [err, list]; an absent
\* header gives no error and no address.
AddressList(v) ==
    LET parts == Split(v, ",")
        boxes == [k \in 1..Len(parts) |-> ParseMailbox(TrimSpace(parts[k]))]
    IN  IF v = <<>> THEN [err |-> FALSE, list |-> <<>>]
        ELSE IF \E k \in 1..Len(boxes) : boxes[k].err THEN [err |-> TRUE, list |-> <<>>]
        ELSE [err |-> FALSE, list |-> boxes]

\* fromName, fromEmail of processEmlFile: the first mailbox of the list, or two
\* empty strings when the list did not parse or is empty.
FirstAddress(v) ==
    LET r == AddressList(v)
    IN  IF ~r.err /\ Len(r.list) > 0
        THEN [Name |-> r.list[1].Name, Email |-> r.list[1].Address]
        ELSE [Name |-> <<>>, Email |-> <<>>]

\* The IP field of the record: strings.ReplaceAll(originIP, ",", "\n").
IPField(ip) == ReplaceAll(ip, ",", <<"\n">>)

\* The sequences over the set S of length at most n.
RECURSIVE SeqsUpTo(_, _)
SeqsUpTo(S, n) ==
    IF n = 0 THEN {<<>>}
    ELSE LET shorter == SeqsUpTo(S, n - 1)
         IN  shorter \cup {Append(x, c) : x \in shorter, c \in S}

\* "http://a.com/x", "http://b.org", "http://%" (which url.Parse rejects) and
\* "mailto:y@z.com".
UrlA == <<"h", "t", "t", "p", ":", "/", "/", "a", ".", "c", "o", "m", "/", "x">>
UrlB == <<"h", "t", "t", "p", ":", "/", "/", "b", ".", "o", "r", "g">>
UrlBad == <<"h", "t", "t", "p", ":", "/", "/", "%">>
Mailto == <<"m", "a", "i", "l", "t", "o", ":", "y", "@", "z", ".", "c", "o", "m">>

\* The tokens HTML bodies are made of: anchors with their href first, last or
\* alone, an element that is no anchor with an href, a div, an end tag, text.
HtmlTokens ==
    {StartTag("a", <<Attr("href", u)>>) : u \in {UrlA, UrlB, UrlBad, Mailto}}
    \cup {StartTag("a", <<Attr("id", <<"i">>), Attr("href", UrlA)>>),
          StartTag("a", <<Attr("href", UrlB), Attr("id", <<"i">>)>>),
          StartTag("link", <<Attr("href", UrlB)>>),
          StartTag("div", <<>>), EndTag, Text(<<" ">>), Text(<<"x">>)}

\* <a href="http://a.com/x">x</a><a href="http://a.com/x">dup</a>
\* <a href="mailto:y@z.com">skip</a>
ExampleHtml ==
    <<StartTag("a", <<Attr("href", UrlA)>>), Text(<<"x">>), EndTag,
      StartTag("a", <<Attr("href", UrlA)>>), Text(<<"d", "u", "p">>), EndTag,
      StartTag("a", <<Attr("href", Mailto)>>), Text(<<"s", "k", "i", "p">>), EndTag>>

\* The HTML bodies, From values and X-Originating-IP values of the messages.
HtmlStrings == SeqsUpTo(HtmlTokens, MaxTokens) \cup {ExampleHtml}
AddrStrings ==
    SeqsUpTo({"a", "@", "<", ">", " ", ","}, MaxHeaderLen)
    \cup {<<"a", " ", "<", "a", "@", "a", ">">>, <<"a", " ", "a", "@", "a">>}
IpStrings ==
    SeqsUpTo({"[", "]", ",", "1", " "}, MaxHeaderLen)
    \cup {<<"[", "1", ".", "1", ".", "1", ".", "1", "]">>}

\* processEmlFile after mail.CreateReader, on a message that has an HTML body, a
\* From header or an X-Originating-IP header.
FieldInit ==
    /\ BatchIdle
    /\ NameIdle
    /\ \/ htmlContent \in HtmlStrings /\ fromHeader = <<>> /\ ipHeader = <<>>
       \/ htmlContent = <<>> /\ fromHeader \in AddrStrings /\ ipHeader = <<>>
       \/ htmlContent = <<>> /\ fromHeader = <<>> /\ ipHeader \in IpStrings
    /\ fromName = <<>>
    /\ fromEmail = <<>>
    /\ originIP = <<>>
    /\ urls = <<>>
    /\ urlDomains = <<>>
    /\ record = <<>>
    /\ fpc = "from"

FieldFrame == UNCHANGED <<config, chans, pool, mvars, nvars, fs, log, failed, ops,
                          fromHeader, ipHeader, htmlContent>>

\* fromList, err := h.AddressList("From") and the assignment of fromName, fromEmail.
ReadFrom ==
    /\ fpc = "from"
    /\ fromName' = FirstAddress(fromHeader).Name
    /\ fromEmail' = FirstAddress(fromHeader).Email
    /\ fpc' = "ip"
    /\ FieldFrame
    /\ UNCHANGED <<originIP, urls, urlDomains, record>>

\* originIP := h.Get("X-Originating-IP").
ReadIP ==
    /\ fpc = "ip"
    /\ originIP' = ipHeader
    /\ fpc' = "urls"
    /\ FieldFrame
    /\ UNCHANGED <<fromName, fromEmail, urls, urlDomains, record>>

\* urls := extractUrls(htmlContent).
ExtractUrls ==
    /\ fpc = "urls"
    /\ urls' = extractUrls(htmlContent)
    /\ fpc' = "domains"
    /\ FieldFrame
    /\ UNCHANGED <<fromName, fromEmail, originIP, urlDomains, record>>

\* The loop that fills urlDomains.
Domains ==
    /\ fpc = "domains"
    /\ urlDomains' = domainsFrom(urls, 1)
    /\ fpc' = "record"
    /\ FieldFrame
    /\ UNCHANGED <<fromName, fromEmail, originIP, urls, record>>

\* record := EmailRecord{...}: the fields computed from the headers and the body.
BuildRecord ==
    /\ fpc = "record"
    /\ record' = [FromName |-> fromName, FromEmail |-> fromEmail,
                  IP |-> IPField(originIP),
                  URLs |-> Join(urls, <<"\n">>),
                  URLDomains |-> Join(urlDomains, <<"\n">>)]
    /\ fpc' = "built"
    /\ FieldFrame
    /\ UNCHANGED <<fromName, fromEmail, originIP, urls, urlDomains>>

Fields == ReadFrom \/ ReadIP \/ ExtractUrls \/ Domains \/ BuildRecord

\* ----------------------------------------------------------- specifications
Next ==
    \/ WgAdd
    \/ Spawn
    \/ Enqueue
    \/ CloseTasks
    \/ Wait
    \/ CloseResults
    \/ Collect
    \/ Return
    \/ Output
    \/ \E w \in BagToSet(pool) : Recv(w)
    \/ \E w \in BagToSet(pool) : Exit(w)
    \/ \E w \in BagToSet(pool) : Process(w)
    \/ \E w \in BagToSet(pool) : WriteHtml(w)
    \/ \E w \in BagToSet(pool) : RenameTo(w)
    \/ \E w \in BagToSet(pool) : Rename(w)
    \/ \E w \in BagToSet(pool) : Send(w)

\* A batch, under every interleaving of main and the workers.
Spec == Init /\ [][Next]_vars

\* A batch under the Go scheduler, which runs every goroutine that can take a step:
\* as long as main or a worker can step, one of them does.
FairSpec == Spec /\ WF_vars(Next)

\* The derivation of a file name from a record.
NameSpec == NameInit /\ [][Naming]_vars

\* The fields of a record computed from the headers and the body of one message.
FieldSpec == FieldInit /\ [][Fields]_vars

\* ------------------------------------------------------------------ claims
\* processFilesConcurrently has returned to main.
Returned == pc \in {"print", "done"}

\* The elements of a sequence.
Range(q) == {q[k] : k \in 1..Len(q)}

\* The number of warnings of the collector (one per error result) in the log lg.
FailWarnings(lg) ==
    BagCardinality([e \in {x \in BagToSet(lg) : x.tag = "fail"} |-> lg[e]])

\* rec is the record of the candidate at path: its parent directory and base name.
RecordOf(rec, path) ==
    rec.Folder = path.dir[Len(path.dir)] /\ rec.OriginalFile = path.name

C2_FailuresDoNotAbort ==
    (Returned /\ workerCount >= 1) =>
        /\ FailWarnings(log) = Cardinality(failed)
        /\ tasks = <<>> /\ sent = Len(paths)
        /\ \A p \in Range(paths) :
               IF p \in failed
               THEN \A r \in Range(records) : ~RecordOf(r, p)
               ELSE Cardinality({k \in 1..Len(records) : RecordOf(records[k], p)}) = 1

\* C2 witness: the first of two files failed, the second was still processed.
C2_Witness ==
    /\ pc = "done" /\ Len(paths) = 2 /\ failed = {paths[1]}
    /\ FailWarnings(log) = 1
    /\ Len(records) = 1 /\ RecordOf(records[1], paths[2])

\* Every worker has left its loop.
AllExited ==
    /\ BagCardinality(pool) = workerCount
    /\ \A w \in BagToSet(pool) : w.pc = "exited"

\* C3: for every list of paths and every worker count >= 1, under fair scheduling
\* the batch runs to completion: every worker leaves its loop, the result channel
\* is closed and processFilesConcurrently returns.
C3_Terminates ==
    (workerCount >= 1) ~> (pc = "done" /\ AllExited /\ resultsClosed /\ tasksClosed)

\* C3 witness: a batch of two paths and two workers has run to completion.
C3_Witness ==
    /\ pc = "done" /\ workerCount = 2 /\ Len(paths) = 2
    /\ AllExited /\ resultsClosed /\ results = <<>>

\* The tags of the warnings a worker logs for a failed side effect.
SideTags == {"html", "rename", "copy"}

\* The number of records of the candidate at path in the returned list.
RecordsOf(path) == Cardinality({k \in 1..Len(records) : RecordOf(records[k], path)})

\* C4: when the HTML dump, the in-place rename or the copy-and-rename of a decoded
\* file fails, the failure is a warning only: the file is not counted as failed, its
\* record is in the returned list exactly once, and every other decoded file has
\* its record too (the worker went on with the next paths).
C4_SideEffectFailureKeepsRecord ==
    (Returned /\ workerCount >= 1) =>
        \A e \in BagToSet(log) : e.tag \in SideTags =>
            /\ e.path \notin failed
            /\ RecordsOf(e.path) = 1
            /\ \A p \in Range(paths) \ failed : RecordsOf(p) = 1

\* C4 witness: one worker, two files; a side effect of the first file failed and
\* both records were returned, the first file's first.
C4_Witness ==
    /\ pc = "done" /\ workerCount = 1 /\ Len(paths) = 2
    /\ \E e \in BagToSet(log) : e.tag \in SideTags /\ e.path = paths[1]
    /\ Len(records) = 2
    /\ RecordOf(records[1], paths[1]) /\ RecordOf(records[2], paths[2])

\* The side effects of kind op attempted so far.
Attempted(op) == {o \in ops : o.op = op}

\* C5: with a copy-to root set, no in-place rename is ever attempted, also when the
\* in-place flag is set; an in-place rename is attempted only with the flag set and
\* no copy-to root, a copy only with a copy-to root; and once the batch has returned
\* every decoded file had the one rename operation its flags ask for.
C5_CopyToPrecedence ==
    /\ renameByHeaderTo # <<>> => Attempted("rename") = {}
    /\ Attempted("rename") # {} => renameByHeader /\ renameByHeaderTo = <<>>
    /\ Attempted("copy") # {} => renameByHeaderTo # <<>>
    /\ (Returned /\ workerCount >= 1) =>
           \A p \in Range(paths) \ failed :
               /\ renameByHeaderTo # <<>> => [op |-> "copy", path |-> p] \in ops
               /\ (renameByHeaderTo = <<>> /\ renameByHeader) =>
                      [op |-> "rename", path |-> p] \in ops

\* C5 witness: both flags set; the batch returned after a copy and no rename.
C5_Witness ==
    /\ pc = "done" /\ renameByHeader /\ renameByHeaderTo # <<>>
    /\ Attempted("copy") # {} /\ Attempted("rename") = {}
    /\ records # <<>>

\* A run that uses the copy-to mode only.
CopyOnly == renameByHeaderTo # <<>> /\ ~renameByHeader /\ htmlOutDir = <<>>

\* C6: in a run that uses only the copy-to mode, every candidate file is still at
\* its original path with its original bytes, at every moment of the run, for every
\* target root (also one equal to or inside the input root) and every derived name
\* (also one that is the name of a candidate).
C6_SourceUntouched ==
    CopyOnly => \A p \in Range(paths) : p \in DOMAIN fs /\ fs[p] = fs0[p]

\* C7: every per-file failure carries the path of the file: an error result on the
\* result queue names a failed path, and so does every warning of the collector.
C7_FailureNamesPath ==
    /\ \A k \in 1..Len(results) :
           results[k][3] # Nil => results[k][3].path \in failed
    /\ \A e \in BagToSet(log) : e.tag = "fail" => e.path \in failed

\* C8: when main has finished, standard output holds the summary (JSON with -json,
\* else CSV) if no side-effect mode is set, and nothing if the HTML root, the
\* in-place flag or the copy-to root is set, whatever -json and -csv are; nothing
\* is written before.
C8_StdoutIffNoSideEffect ==
    /\ pc # "done" => stdout = ""
    /\ pc = "done" =>
           IF htmlOutDir = <<>> /\ ~renameByHeader /\ renameByHeaderTo = <<>>
           THEN stdout = (IF jsonOutput THEN "json" ELSE "csv")
           ELSE stdout = ""

\* C8 witness: a run with -rename-by-header and -json has finished with a record and
\* an empty standard output.
C8_Witness ==
    /\ pc = "done" /\ renameByHeader /\ htmlOutDir = <<>> /\ renameByHeaderTo = <<>>
    /\ jsonOutput /\ records # <<>> /\ stdout = ""

\* The characters a file name must not hold: / \ : * ? " < > |
Invalid == {"/", "\\", ":", "*", "?", "\"", "<", ">", "|"}

\* The timestamp token of a name: "unknown" for an empty sentDate, else the date
\* (characters 1-10), an underscore and the digits of the time (hh, mm, ss).
ExpectedToken(sd) ==
    IF sd = <<>> THEN <<"u", "n", "k", "n", "o", "w", "n">>
    ELSE SubSeq(sd, 1, 10) \o <<"_">>
         \o SubSeq(sd, 12, 13) \o SubSeq(sd, 15, 16) \o SubSeq(sd, 18, 19)

\* The name before it is sanitized: token, a space, the subject, ".eml".
ExpectedRaw == ExpectedToken(sentDate) \o <<" ">> \o subject \o <<".", "e", "m", "l">>

\* The string x with an underscore at each position that holds an invalid character.
Underscored(x) == [i \in 1..Len(x) |-> IF x[i] \in Invalid THEN "_" ELSE x[i]]

\* The name "2024-03-26_153015 Re_ Q1.eml".
ExampleName ==
    <<"2", "0", "2", "4", "-", "0", "3", "-", "2", "6", "_", "1", "5", "3", "0", "1",
      "5", " ", "R", "e", "_", " ", "Q", "1", ".", "e", "m", "l">>

\* C9: the derived name is the timestamp token, a space, the subject and ".eml",
\* sanitized; the token is "unknown" for an empty sentDate and else the date part,
\* an underscore and the time part without its colons. sentDate
\* "2024-03-26 15:30:15" and subject "Re: Q1" give "2024-03-26_153015 Re_ Q1.eml".
C9_DerivedName ==
    Len(derived) >= 1 =>
        /\ derived[1] = Underscored(ExpectedRaw)
        /\ sentDate = <<>> => SubSeq(derived[1], 1, 8) = <<"u", "n", "k", "n", "o", "w", "n", " ">>
        /\ (sentDate = MsgD.SentDate /\ subject = MsgD.Subject) => derived[1] = ExampleName

\* C9 witness: the name of the example has been derived.
C9_Witness ==
    /\ npc = "named"
    /\ sentDate = MsgD.SentDate /\ subject = MsgD.Subject
    /\ derived = <<ExampleName>>

\* C10: the sanitized name has the length of the raw name, holds no invalid
\* character, has an underscore wherever the raw name has an invalid character and
\* the raw name's character everywhere else; sanitizing it again changes nothing,
\* and deriving the name again from the same record gives the same string.
C10_SanitizeIdempotent ==
    /\ Len(derived) >= 1 =>
           /\ Len(derived[1]) = Len(ExpectedRaw)
           /\ \A i \in 1..Len(derived[1]) :
                  /\ derived[1][i] \notin Invalid
                  /\ ExpectedRaw[i] \in Invalid => derived[1][i] = "_"
                  /\ ExpectedRaw[i] \notin Invalid => derived[1][i] = ExpectedRaw[i]
    /\ Len(derived) >= 2 => derived[2] = derived[1]
    /\ Len(derived) >= 3 => derived[3] = derived[1]

\* C10 witness: a subject of a vertical bar and a slash, with a dated record, was
\* derived, sanitized again and derived again; the three names are the same and
\* differ from the raw name.
C10_Witness ==
    /\ npc = "rederived"
    /\ subject = <<"|", "/">> /\ sentDate # <<>>
    /\ Len(derived) = 3 /\ derived[2] = derived[1] /\ derived[3] = derived[1]
    /\ derived[1] # ExpectedRaw

\* The href values of the anchor start tag tok that begin with "http".
AnchorHrefs(tok) ==
    IF tok.t = "start" /\ tok.data = "a"
    THEN {tok.attr[j].val : j \in {i \in 1..Len(tok.attr) :
              /\ tok.attr[i].key = "href"
              /\ Len(tok.attr[i].val) >= 4
              /\ SubSeq(tok.attr[i].val, 1, 4) = <<"h", "t", "t", "p">>}}
    ELSE {}

\* The position in the HTML body of the first anchor that carries the URL u.
FirstAnchor(u) ==
    CHOOSE k \in 1..Len(htmlContent) :
        /\ u \in AnchorHrefs(htmlContent[k])
        /\ \A m \in 1..(k - 1) : u \notin AnchorHrefs(htmlContent[m])

\* extractUrls has returned.
UrlsExtracted == fpc \in {"domains", "record", "built"}

\* C11: the URLs extractUrls returns are exactly the href values of the anchors
\* of the body that begin with "http", each once, in the order of their first
\* anchors, however the anchors are nested and wherever href stands among the
\* attributes; a body of white space gives none; the body with two anchors to
\* http://a.com/x and a mailto anchor gives <<"http://a.com/x">>, domains <<"a.com">>.
C11_ExtractUrls ==
    UrlsExtracted =>
        /\ Range(urls) = UNION {AnchorHrefs(htmlContent[k]) : k \in 1..Len(htmlContent)}
        /\ \A i, j \in 1..Len(urls) :
               i < j => urls[i] # urls[j] /\ FirstAnchor(urls[i]) < FirstAnchor(urls[j])
        /\ (\A k \in 1..Len(htmlContent) : htmlContent[k] = Text(<<" ">>)) => urls = <<>>
        /\ htmlContent = ExampleHtml =>
               /\ urls = <<UrlA>>
               /\ fpc \in {"record", "built"} => urlDomains = <<<<"a", ".", "c", "o", "m">>>>

\* C11 witness: the record of the example body has been built.
C11_Witness ==
    /\ fpc = "built" /\ htmlContent = ExampleHtml
    /\ urls = <<UrlA>> /\ urlDomains = <<<<"a", ".", "c", "o", "m">>>>

\* The loop over urls has filled urlDomains.
DomainsComputed == fpc \in {"record", "built"}

\* C12: urlDomains has at most as many entries as urls, and its i-th entry is the
\* host of the i-th URL, also when a URL of the list does not parse.
C12_DomainsAligned ==
    DomainsComputed =>
        /\ Len(urlDomains) <= Len(urls)
        /\ \A i \in 1..Len(urlDomains) :
               ~UrlParse(urls[i]).err /\ urlDomains[i] = UrlParse(urls[i]).Host

\* The string x without its characters "[" and "]", and with a newline for each comma.
RECURSIVE Unbracketed(_)
Unbracketed(x) ==
    IF x = <<>> THEN <<>>
    ELSE (CASE Head(x) \in {"[", "]"} -> <<>>
            [] Head(x) = "," -> <<"\n">>
            [] OTHER -> <<Head(x)>>) \o Unbracketed(Tail(x))

\* C13: the IP field of a built record is the X-Originating-IP header value
\* without brackets and with a newline for every comma; it holds no bracket.
C13_OriginatingIP ==
    fpc = "built" =>
        /\ record.IP = Unbracketed(ipHeader)
        /\ \A k \in 1..Len(record.IP) : record.IP[k] \notin {"[", "]"}

\* The From header has been read.
FromRead == fpc \notin {"idle", "from"}

\* C14: when the From value is no standards-compliant address list (and, holding
\* no dot, does not fit the permissive pattern either), the name is empty and the
\* address is the trimmed header value; the address is never empty for a header
\* value that is not blank.
C14_AddressFallback ==
    FromRead =>
        /\ AddressList(fromHeader).err =>
               fromName = <<>> /\ fromEmail = TrimSpace(fromHeader)
        /\ TrimSpace(fromHeader) # <<>> => fromEmail # <<>>

\* The statements of a worker between taking a task and having sent its result.
Busy == {"process", "html", "copy", "rename", "send"}

\* The number of workers that hold a task.
Running == BagCardinality([w \in {x \in BagToSet(pool) : x.pc \in Busy} |-> pool[w]])

\* The number of paths taken from the work queue whose result was not sent yet:
\* the paths enqueued, less those still queued, less the results sent (queued on
\* results, or collected as a record or as a warning).
InFlight == sent - Len(tasks) - Len(results) - Len(records) - FailWarnings(log)

\* C15: with a worker count W >= 1, at most W paths are in the pipeline at any
\* time (taken from the work queue, result not yet sent), each held by a worker
\* of its own; there are never more than W worker goroutines, and from the end
\* of the start loop until the work queue is closed there are exactly W, all
\* inside their loop.
C15_BoundedPool ==
    workerCount >= 1 =>
        /\ InFlight <= workerCount
        /\ InFlight = Running
        /\ BagCardinality(pool) <= workerCount
        /\ pc = "enqueue" =>
               /\ BagCardinality(pool) = workerCount
               /\ \A w \in BagToSet(pool) : w.pc \in Busy \cup {"recv"}

\* C15 witness: two workers, both in the middle of a file, while main has not yet
\* closed the work queue.
C15_Witness ==
    /\ workerCount = 2 /\ pc = "enqueue" /\ InFlight = 2 /\ Running = 2
    /\ \A w \in BagToSet(pool) : w.pc = "process"

\* The number of results workers have sent so far: those still queued and those
\* the collector has taken.
ResultsSent == Len(results) + Len(records) + FailWarnings(log)

\* C16: both queues have room for as many items as there are paths; at most one
\* task per path is enqueued and at most one result per task taken is sent, so
\* neither buffer ever holds more than its capacity, and a sender never finds its
\* buffer full: not main with a path left to enqueue, not a worker with a result.
C16_SendsNeverBlock ==
    /\ sent <= Len(paths)
    /\ ResultsSent <= sent - Len(tasks)
    /\ Len(tasks) <= Len(paths) /\ Len(results) <= Len(paths)
    /\ (pc = "enqueue" /\ sent < Len(paths)) => Len(tasks) < Cap
    /\ \A w \in BagToSet(pool) : w.pc = "send" => Len(results) < Cap

\* C16 witness: two workers have sent the results of both paths, which fill the
\* result queue while main still waits for the workers and has collected nothing.
C16_Witness ==
    /\ pc = "wait" /\ workerCount = 2 /\ Len(paths) = 2
    /\ Len(results) = 2 /\ records = <<>>

\* The phase of the batch main is in: 1 Dispatching (workers started, paths
\* enqueued, work queue closed), 2 Draining (wg.Wait, close(results)), 3 Done
\* (collection and after).
Phase(at) ==
    CASE at \in {"add", "spawn", "enqueue", "panic"} -> 1
      [] at \in {"wait", "closeResults"} -> 2
      [] OTHER -> 3

\* What holds in every state of a batch whose phases are in order.
PhaseInvariant ==
    /\ tasksClosed => sent = Len(paths) /\ Phase(pc) >= 2
    /\ resultsClosed => tasksClosed /\ wg = 0 /\ AllExited /\ Phase(pc) = 3
    /\ \A w \in BagToSet(pool) : w.pc # "panic"
    /\ (records # <<>> \/ FailWarnings(log) > 0) => resultsClosed
    /\ Phase(pc) = 3 => resultsClosed

\* What holds of every step: the phase never goes back, and records changes only
\* in a step of the collector, which takes the head of results and moves no worker.
PhaseStep ==
    /\ Phase(pc') >= Phase(pc)
    /\ records' # records =>
           /\ pc = "collect" /\ resultsClosed
           /\ results # <<>> /\ results' = Tail(results)
           /\ pool' = pool

\* C17: the phases come in the order Dispatching, Draining, Done: the work queue
\* is closed only after every path was enqueued, the result channel only after
\* every worker has finished (no worker sends on the closed channel), the
\* collector takes its first result only after the result channel was closed, and
\* only the collector adds to records.
C17_PhaseOrder == [](PhaseInvariant) /\ [][PhaseStep]_vars

\* C17 witness: the collector of a batch of two workers is between its first and
\* its second result; both channels are closed and both workers have finished.
C17_Witness ==
    /\ pc = "collect" /\ workerCount = 2
    /\ tasksClosed /\ resultsClosed /\ AllExited
    /\ Len(records) = 1 /\ Len(results) = 1

\* The side effects the flags of the run ask for, for the file at path.
Requested(path) ==
    (IF htmlOutDir # <<>> THEN {[op |-> "html", path |-> path]} ELSE {})
    \cup (IF renameByHeaderTo # <<>> THEN {[op |-> "copy", path |-> path]}
          ELSE IF renameByHeader THEN {[op |-> "rename", path |-> path]} ELSE {})

\* The records sent so far: those on the result queue and those collected.
Emitted == {results[k][1] : k \in {i \in 1..Len(results) : results[i][3] = Nil}}
           \cup Range(records)

\* C18: the stages of one file are in sequence. A worker at a side effect holds
\* the record of its file, decoded without error; a rename or copy is attempted
\* only after the HTML dump, when one is requested; a record is sent only after
\* every requested side effect of its file was attempted; and no side effect is
\* ever attempted for a file whose decoding failed.
C18_StagesInOrder ==
    /\ \A w \in BagToSet(pool) :
           /\ w.pc \in {"html", "copy", "rename"} =>
                  w.out[3] = Nil /\ RecordOf(w.out[1], w.path) /\ w.path \notin failed
           /\ w.pc \in {"copy", "rename"} /\ htmlOutDir # <<>> =>
                  [op |-> "html", path |-> w.path] \in ops
           /\ w.pc = "send" =>
                  IF w.out[3] = Nil THEN Requested(w.path) \subseteq ops
                  ELSE w.path \in failed
    /\ \A o \in ops :
           /\ o.path \notin failed
           /\ o.op \in {"copy", "rename"} /\ htmlOutDir # <<>> =>
                  [op |-> "html", path |-> o.path] \in ops
    /\ \A r \in Emitted : \A p \in Range(paths) :
           RecordOf(r, p) => Requested(p) \subseteq ops

\* C18 witness: with an HTML root and a copy-to root set, a worker is about to
\* send the record of a file whose HTML dump and copy were both attempted.
C18_Witness ==
    /\ htmlOutDir # <<>> /\ renameByHeaderTo # <<>>
    /\ \E w \in BagToSet(pool) :
           /\ w.pc = "send" /\ w.out[3] = Nil
           /\ {[op |-> "html", path |-> w.path], [op |-> "copy", path |-> w.path]}
                  \subseteq ops

\* The workers that stand at a side effect.
AtSideEffect == {w \in BagToSet(pool) : w.pc \in {"html", "copy", "rename"}}

\* The path the side effect of worker w writes, creates or renames onto.
Target(w) ==
    CASE w.pc = "html" -> HtmlPath(w.path, inputRoot, htmlOutDir)
      [] w.pc = "copy" -> CopyPath(w.path, inputRoot, renameByHeaderTo, w.out[1])
      [] w.pc = "rename" -> RenamePath(w.path, w.out[1])

\* C19: the output paths of a file are exclusive to its worker. No two workers
\* stand at side effects with the same target path, and the target of a rename or
\* copy is never the path of another candidate of the batch.
C19_ExclusiveOutputs ==
    /\ \A w \in AtSideEffect : \A v \in AtSideEffect \ {w} : Target(w) # Target(v)
    /\ \A w \in AtSideEffect :
           w.pc \in {"copy", "rename"} => Target(w) \notin Range(paths) \ {w.path}

\* The records in the order their results were put on the result queue: those
\* collected, then those of the results still queued, errors left out.
QueuedRecords(q) ==
    [k \in 1..Len(SelectSeq(q, LAMBDA r : r[3] = Nil)) |->
        SelectSeq(q, LAMBDA r : r[3] = Nil)[k][1]]

Arrived == records \o QueuedRecords(results)

\* The position in paths of the file a record was built from.
InputIndex(rec) == CHOOSE k \in 1..Len(paths) : RecordOf(rec, paths[k])

\* With one worker the arrival order is the input order of the decoded files.
SingleWorkerOrder ==
    workerCount = 1 =>
        /\ \A i, j \in 1..Len(Arrived) :
               i < j => InputIndex(Arrived[i]) < InputIndex(Arrived[j])
        /\ Returned =>
               LET decoded == SelectSeq(paths, LAMBDA q : q \notin failed)
               IN  /\ Len(records) = Len(decoded)
                   /\ \A k \in 1..Len(decoded) : RecordOf(records[k], decoded[k])

\* A step keeps the arrival order: the sequence of arrived records only grows at
\* its end, by the record a worker sends, and the collector moves the head of the
\* queue to the end of the record list unless it is an error.
ArrivalStep ==
    /\ \/ Arrived' = Arrived
       \/ /\ Len(Arrived') = Len(Arrived) + 1
          /\ SubSeq(Arrived', 1, Len(Arrived)) = Arrived
          /\ records' = records
    /\ records' # records =>
           /\ results # <<>> /\ Head(results)[3] = Nil
           /\ records' = Append(records, Head(results)[1])

\* C20: the record list is in arrival order. Records are appended in the order in
\* which their results were put on the result queue, error results being skipped;
\* with one worker that order is the input order of the successfully decoded files.
\* (C20_Witness shows that with two workers it need not be the input order.)
C20_ArrivalOrder == [](SingleWorkerOrder) /\ [][ArrivalStep]_vars

\* C20 witness: two workers, both files decoded, and the returned list holds the
\* record of the second path before the record of the first.
C20_Witness ==
    /\ Returned /\ workerCount = 2 /\ Len(paths) = 2 /\ Len(records) = 2
    /\ RecordOf(records[1], paths[2])
    /\ RecordOf(records[2], paths[1])

\* The number of tasks on the work queue that name path.
Queued(path) == Cardinality({k \in 1..Len(tasks) : tasks[k] = path})

\* The number of workers that hold the task of path.
Held(path) ==
    BagCardinality([w \in {x \in BagToSet(pool) : x.pc \in Busy /\ x.path = path} |->
                       pool[w]])

\* The number of records of path that were sent: on the result queue or collected.
RecordsSent(path) ==
    Cardinality({k \in 1..Len(results) :
                    results[k][3] = Nil /\ RecordOf(results[k][1], path)})
    + RecordsOf(path)

\* The number of error results that were sent: on the result queue or collected
\* (the collector logs one warning for each).
ErrorsSent ==
    Cardinality({k \in 1..Len(results) : results[k][3] # Nil}) + FailWarnings(log)

\* The paths whose decoding failed and whose worker has sent the error.
ErrorsDue == {p \in failed : Held(p) = 0}

\* C21: with a worker count >= 1, every candidate path is processed exactly once.
\* A path put on the work queue is at any time in exactly one place: on the queue,
\* held by exactly one worker, or answered by exactly one result (its record, or
\* an error when its decoding failed); a path not yet enqueued is nowhere. Once
\* the batch has returned every path was enqueued and answered, so the record list
\* holds exactly one record for each decoded path and nothing else.
C21_ExactlyOnce ==
    workerCount >= 1 =>
        /\ \A k \in 1..Len(paths) :
               Queued(paths[k]) + Held(paths[k]) + RecordsSent(paths[k])
                   + (IF paths[k] \in ErrorsDue THEN 1 ELSE 0)
               = (IF k <= sent THEN 1 ELSE 0)
        /\ \A p \in failed : RecordsSent(p) = 0
        /\ ErrorsSent = Cardinality(ErrorsDue)
        /\ failed \subseteq Range(paths)
        /\ Returned =>
               /\ sent = Len(paths) /\ tasks = <<>> /\ results = <<>>
               /\ \A p \in Range(paths) : Held(p) = 0
               /\ Len(records) = Cardinality(Range(paths) \ failed)
               /\ \A r \in Range(records) :
                      \E p \in Range(paths) \ failed : RecordOf(r, p)

\* C21 witness: two workers hold the two paths of the batch, one each, while
\* nothing is left on the work queue.
C21_Witness ==
    /\ workerCount = 2 /\ Len(paths) = 2 /\ tasks = <<>>
    /\ Held(paths[1]) = 1 /\ Held(paths[2]) = 1
    /\ \E w \in BagToSet(pool) : w.pc = "process"

\* No file was processed: no goroutine runs, nothing was decoded, no side effect
\* was attempted, nothing was logged, the files are as they were, and there is
\* neither a result nor a record.
NothingProcessed ==
    /\ pool = EmptyBag /\ spawned = 0
    /\ failed = {} /\ ops = {} /\ log = EmptyBag /\ fs = fs0
    /\ results = <<>> /\ records = <<>>

\* How far main has come in a batch without workers.
MainRank ==
    CASE pc = "add" -> 0
      [] pc = "enqueue" -> 1 + sent
      [] pc = "wait" -> Len(paths) + 2
      [] pc = "closeResults" -> Len(paths) + 3
      [] pc = "collect" -> Len(paths) + 4
      [] pc = "print" -> Len(paths) + 5
      [] pc = "done" -> Len(paths) + 6
      [] OTHER -> 0 - 1

\* What holds in every state of a batch whose worker count is zero or negative.
UnvalidatedCount ==
    /\ workerCount = 0 =>
           /\ NothingProcessed
           /\ pc # "panic" /\ MainRank >= 0
           /\ pc # "done" => ENABLED Next
           /\ tasks = SubSeq(paths, 1, sent)
           /\ Returned => sent = Len(paths) /\ tasksClosed /\ resultsClosed
    /\ workerCount < 0 =>
           /\ NothingProcessed
           /\ pc \in {"add", "panic"}
           /\ sent = 0 /\ tasks = <<>> /\ ~tasksClosed /\ ~resultsClosed /\ wg = 0

\* C22: the worker count is not validated. With worker count 0 the batch runs to
\* its end without deadlock (main can always take a step until it is done, and each
\* step takes it further), the paths stay unread on the work queue, no file is
\* processed, no side effect is attempted, nothing is logged, and the record list is
\* empty; with a negative worker count wg.Add panics before any path is enqueued.
C22_WorkerCountUnchecked ==
    [](UnvalidatedCount) /\ [][workerCount = 0 => MainRank' > MainRank]_vars

\* C22 witness: a batch of two paths with worker count 0 has returned and printed,
\* with both paths still on the work queue and no record.
C22_Witness ==
    /\ workerCount = 0 /\ Len(paths) = 2 /\ pc = "done"
    /\ tasks = paths /\ records = <<>> /\ log = EmptyBag /\ fs = fs0

====
